---- MODULE Spec2Model ----
(***************************************************************************)
(* The multilingual garbage-text scorer of walrus-app/backend/agents/      *)
(* NLP_sanity_Checker.py: the stopword table loaded at import, language    *)
(* detection, tokenizer dispatch, the statistics and the rule chain.       *)
(*                                                                         *)
(* Texts, tokens and language codes are sequences of one-character         *)
(* strings.  A character outside ASCII is written "U+XXXX" (its code       *)
(* point); the stopword table holds words as strings, a word being the     *)
(* concatenation of its characters (Join).  Ratios are exact fractions     *)
(* <<numerator, denominator>>; round(x, 2) yields <<hundredths, 100>>.     *)
(*                                                                         *)
(* With it, the LLM-backed verification of the same directory: the         *)
(* request of base_agent.py, the stages of document_coherence.py and       *)
(* plausibility_agent.py, and the pipeline of main.py.  A document is      *)
(* known by its shape (blanks around a trimmed length), a JSON value of    *)
(* the model's answer by its kind.                                         *)
(***************************************************************************)
EXTENDS Integers, Sequences, FiniteSets, TLC

-----------------------------------------------------------------------------
(* Bounds of the model *)

\* longest text handed to sanity_check / compute_stats
MaxLen == 5
\* scoring calls in one run of the call-sequence specification
MaxCalls == 3
\* longest text of letters and blanks handed to compute_stats / is_garbage
MaxWordTextLen == 7
\* longest run of letters, and of digits, in the long texts given to
\* sanity_check
MaxRun == 50
\* longest trimmed length of a document given to the LLM-backed stages
MaxDocLen == 26
\* language profiles the (black-box) detector may have been trained to
NumProfiles == 3

-----------------------------------------------------------------------------
(* Characters *)

\* the CJK ideograph U+7684, a Chinese stopword of the built-in table
Han == "U+7684"

Chars == {"a", "A", "1", " ", Han}

\* str.isalpha on one character
IsAlphaChar(c) == c \in {"a", "A", Han}

\* str.isspace on one character
IsSpaceChar(c) == c = " "

IsAsciiAlnum(c) == c \in {"a", "A", "1"}

\* str.lower on one character
LowerChar(c) == IF c = "A" THEN "a" ELSE c

Texts == UNION {[1..n -> Chars] : n \in 0..MaxLen}

\* the string a character sequence spells
RECURSIVE Join(_)
Join(w) == IF w = <<>> THEN "" ELSE Head(w) \o Join(Tail(w))

\* w.lower()
Lower(w) == [i \in 1..Len(w) |-> LowerChar(w[i])]

\* t.isalpha(): non-empty and every character alphabetic
IsAlpha(t) == t # <<>> /\ \A i \in 1..Len(t) : IsAlphaChar(t[i])

\* text.strip()
RECURSIVE LStrip(_)
LStrip(t) == IF t # <<>> /\ IsSpaceChar(Head(t)) THEN LStrip(Tail(t)) ELSE t

RECURSIVE RStrip(_)
RStrip(t) ==
    IF t # <<>> /\ IsSpaceChar(t[Len(t)]) THEN RStrip(SubSeq(t, 1, Len(t) - 1)) ELSE t

strip(t) == RStrip(LStrip(t))

\* sum(c.isalpha() for c in text)
AlphaCount(t) == Cardinality({i \in 1..Len(t) : IsAlphaChar(t[i])})

-----------------------------------------------------------------------------
(* Python's None and the numbers of the statistics *)

\* None as a language
None == <<"None">>

\* None as a stopword ratio
NoRatio == <<>>

Max(a, b) == IF a >= b THEN a ELSE b

\* x < y and x > y on fractions with positive denominators
Lt(x, y) == x[1] * y[2] < y[1] * x[2]

Gt(x, y) == Lt(y, x)

\* A quotient n / d lies midway between two hundredths only when it is an odd
\* number of 8ths, of 40ths or of 200ths. An 8th is a float exactly and Python
\* rounds it to the even hundredth. A 40th or a 200th is not: the float
\* nearest to it lies above or below the midpoint and Python rounds that
\* float. These are the odd k up to the denominator for which round(k / 40, 2)
\* and round(k / 200, 2) go up.
TiesUp40 ==
    {1, 9, 11, 13, 15, 21, 27, 31, 35, 37}

TiesUp200 ==
    {1, 7, 11, 13, 17, 19, 23, 27, 33, 39, 51, 53, 63, 67, 77, 79, 81, 89,
     91, 93, 101, 103, 107, 109, 111, 127, 129, 131, 133, 137, 151, 153, 157,
     159, 161, 177, 179, 181, 183, 187}

\* truncation to hundredths
Round2Floor(n, d) == <<(100 * n) \div d, 100>>

\* round(n / d, 2): the nearest hundredth, a tie going as Python sends it
\* (the tables cover quotients up to 1, where the alpha ratio lies; an average
\* word length is a tie only over 8, 40 or 200 words)
Round2(n, d) ==
    LET q == (100 * n) \div d
        r == (100 * n) % d
        up == IF (8 * n) % d = 0 THEN q % 2 = 1
              ELSE IF (40 * n) % d = 0 THEN ((40 * n) \div d) \in TiesUp40
              ELSE ((200 * n) \div d) \in TiesUp200
    IN  IF 2 * r > d \/ (2 * r = d /\ up) THEN <<q + 1, 100>> ELSE <<q, 100>>

-----------------------------------------------------------------------------
(* The stopword table, lines 13-30 *)

\* the table before the module is imported
Unloaded == [k \in {} |-> {}]

\* the except-branch literal
BuiltinTable ==
          "en" :> {"the", "and", "is", "in", "it", "to", "of", "a", "that", "for", "on", "with", "as", "was", "are", "at", "by", "this", "from", "or"}
       @@ "es" :> {"de", "la", "que", "el", "en", "y", "a", "los", "se", "del", "las", "por", "un", "para", "con", "no", "una", "su", "al", "lo"}
       @@ "fr" :> {"de", "la", "et", "le", "U+00E0", "les", "des", "en", "du", "un", "que", "pour", "dans", "par", "est", "sur", "qui", "se", "au"}
       @@ "de" :> {"und", "der", "die", "das", "in", "zu", "den", "von", "mit", "nicht", "ist", "des", "dem", "ein", "eine", "als", "auch", "auf"}
       @@ "zh" :> {"U+7684", "U+4E86", "U+5728", "U+662F", "U+6211", "U+6709", "U+548C", "U+5C31", "U+4E0D", "U+4EBA", "U+90FD", "U+4E00", "U+4E00U+4E2A", "U+4E0A", "U+4E5F", "U+5F88", "U+5230", "U+4ED6", "U+5979"}
       @@ "ar" :> {"U+0641U+064A", "U+0645U+0646", "U+0639U+0644U+0649", "U+0648", "U+0625U+0644U+0649", "U+0639U+0646", "U+0623U+0646", "U+0645U+0639", "U+0643U+0627U+0646", "U+0645U+0627", "U+0644U+0627", "U+0647U+0630U+0627", "U+0647U+0630U+0647", "U+0627U+0644U+0630U+064A", "U+0630U+0644U+0643", "U+0643U+0644", "U+0643U+0645U+0627", "U+0647U+0648"}
       @@ "ru" :> {"U+0438", "U+0432", "U+043DU+0435", "U+043DU+0430", "U+0447U+0442U+043E", "U+043EU+043D", "U+0441", "U+043AU+0430U+043A", "U+0430", "U+0435U+0433U+043E", "U+043FU+043E", "U+043DU+043E", "U+0437U+0430", "U+0438U+0437", "U+043A", "U+043EU+043DU+0430", "U+043EU+043DU+0438", "U+0435U+0435"}
       @@ "hi" :> {"U+0914U+0930", "U+0915U+0947", "U+0939U+0948", "U+0938U+0947", "U+092EU+0947U+0902", "U+0915U+093E", "U+0915U+093F", "U+092FU+0939", "U+0915U+094B", "U+092AU+0930", "U+0935U+0939", "U+0915U+0940", "U+091CU+094B", "U+0915U+0930", "U+0939U+0941U+0906", "U+0935U+0947", "U+0907U+0938"}
       @@ "pt" :> {"de", "que", "e", "o", "da", "em", "um", "para", "com", "nU+00E3o", "uma", "os", "no", "se", "na", "por", "mais", "as", "dos"}
       @@ "it" :> {"di", "e", "che", "in", "a", "per", "U+00E8", "con", "non", "una", "il", "un", "ma", "le", "si", "dei", "della", "piU+00F9", "come"}

\* a well-formed stopwords.json: its keys are whatever the deployment wrote,
\* here the detector's own code for Chinese and one for English
ResourceContent ==
          "en" :> {"a", "the"}
       @@ "zh-cn" :> {Han}

\* the resource as the import finds it
Resources == {"absent", "present", "malformed"}

\* the load with no except branch: a missing file ends the import
LoadStopwordsUncaught(res) ==
    IF res = "present"
    THEN [ok |-> TRUE, table |-> ResourceContent, warned |-> FALSE]
    ELSE [ok |-> FALSE, table |-> Unloaded, warned |-> FALSE]

\* what the try/except of lines 14-30 leaves: json.load's value when the
\* file opens and parses, the literal and the printed warning on
\* FileNotFoundError; any other exception (json.JSONDecodeError) is not
\* caught and ends the import
LoadStopwordsResult(res) ==
    IF res = "present"
    THEN [ok |-> TRUE, table |-> ResourceContent, warned |-> FALSE]
    ELSE IF res = "absent"
    THEN [ok |-> TRUE, table |-> BuiltinTable, warned |-> TRUE]
    ELSE [ok |-> FALSE, table |-> Unloaded, warned |-> FALSE]

-----------------------------------------------------------------------------
(* Language codes and the detector *)

en == <<"e", "n">>
so == <<"s", "o">>
zh == <<"z", "h">>
zh_cn == <<"z", "h", "-", "c", "n">>
ja == <<"j", "a">>
ko == <<"k", "o">>
EmptyCode == <<>>

LangCodes == {en, so, zh, zh_cn, ja, ko}

\* lang.startswith(prefix)
StartsWith(s, p) == Len(s) >= Len(p) /\ SubSeq(s, 1, Len(p)) = p

\* DetectorFactory.seed = 0
DetectorSeed == 0

\* the random draws a detection may use: with a seed every detector is
\* re-seeded with it before it samples; without one each draw is fresh
UnseededDraws == 0..(NumProfiles - 1)

SeedDraws == {DetectorSeed}

Profiles == 0..(NumProfiles - 1)

\* the codes langdetect ranks for a text: none when the text has no letter
\* (it raises LangDetectException), the CJK codes for text with ideographs,
\* otherwise Latin-script codes, among them one without stopwords ("so")
\* and the empty code a detector stub may answer
Candidates(t) ==
    IF AlphaCount(t) = 0 THEN <<>>
    ELSE IF \E i \in 1..Len(t) : t[i] = Han THEN <<zh_cn, ja, ko>>
    ELSE <<en, so, EmptyCode>>

\* detect(text): a fixed function of the text, the trained profile and the
\* random draw
detect(t, prof, draw) ==
    LET c == Candidates(t)
    IN  IF c = <<>> THEN [raised |-> TRUE, lang |-> None]
        ELSE [raised |-> FALSE, lang |-> c[((prof + draw) % Len(c)) + 1]]

\* lang is None
IsNone(l) == l = None

\* not lang
Falsy(l) == l = None \/ l = EmptyCode

-----------------------------------------------------------------------------
(* Tokenizers, lines 35-44 *)

\* the character class a segmenter groups by
CharClass(c) ==
    IF IsSpaceChar(c) THEN "space"
    ELSE IF c = Han THEN "han"
    ELSE IF c = "1" THEN "digit"
    ELSE "latin"

\* whether character c continues the token that ends with character b
Glue(kind, b, c) ==
    IF kind = "whitespace" THEN IsSpaceChar(b) = IsSpaceChar(c)
    ELSE IF kind = "dictionary" THEN IsAsciiAlnum(b) /\ IsAsciiAlnum(c)
    ELSE CharClass(b) = CharClass(c) /\ CharClass(c) \in {"latin", "digit", "space"}

RECURSIVE SegFrom(_, _, _, _)
SegFrom(kind, t, i, acc) ==
    IF i > Len(t) THEN acc
    ELSE IF acc # <<>> /\ Glue(kind, t[i - 1], t[i])
    THEN SegFrom(kind, t, i + 1, [acc EXCEPT ![Len(acc)] = Append(@, t[i])])
    ELSE SegFrom(kind, t, i + 1, Append(acc, <<t[i]>>))

IsBlank(tok) == IsSpaceChar(tok[1])

NotBlank(tok) == ~IsBlank(tok)

\* nltk.word_tokenize on text without punctuation: the whitespace-separated runs
word_tokenize(t) == SelectSeq(SegFrom("whitespace", t, 1, <<>>), NotBlank)

\* jieba.cut: ASCII alphanumeric runs and single ideographs (dictionary
\* words), every whitespace character a token of its own
jieba_cut(t) == SegFrom("dictionary", t, 1, <<>>)

\* fugashi surfaces: runs of one character class, whitespace dropped
jp_tokenizer(t) == SelectSeq(SegFrom("morpheme", t, 1, <<>>), NotBlank)

\* Okt.morphs: runs of one character class, whitespace dropped
okt_morphs(t) == SelectSeq(SegFrom("morpheme", t, 1, <<>>), NotBlank)

tokenize_text(t, l) ==
    IF StartsWith(l, zh) THEN jieba_cut(t)
    ELSE IF StartsWith(l, ja) THEN jp_tokenizer(t)
    ELSE IF StartsWith(l, ko) THEN okt_morphs(t)
    ELSE word_tokenize(t)

-----------------------------------------------------------------------------
(* Statistics, lines 46-66 *)

RECURSIVE SumLen(_)
SumLen(ws) == IF ws = <<>> THEN 0 ELSE Len(Head(ws)) + SumLen(Tail(ws))

\* words = [t for t in tokens if t.isalpha()]
Words(t, l) == SelectSeq(tokenize_text(t, l), IsAlpha)

\* lang in STOPWORDS
HasEntry(table, l) == Join(l) \in DOMAIN table

\* sum(1 for w in words if w.lower() in STOPWORDS[lang])
StopCount(ws, table, l) ==
    Cardinality({i \in 1..Len(ws) : Join(Lower(ws[i])) \in table[Join(l)]})

\* the ratio with "no data" collapsed to zero
StopwordRatioOrZero(ws, table, l) ==
    IF HasEntry(table, l) /\ Len(ws) > 0
    THEN <<StopCount(ws, table, l), Len(ws)>>
    ELSE <<0, 1>>

\* lines 54-58
StopwordRatio(ws, table, l) ==
    IF HasEntry(table, l) /\ Len(ws) > 0
    THEN <<StopCount(ws, table, l), Len(ws)>>
    ELSE NoRatio

\* the same statistics with the two ratios left unrounded
\* a lookup that inserts an empty entry for a language the table lacks, as
\* setdefault would
TableAfterInsertingLookup(table, l) ==
    IF HasEntry(table, l) THEN table ELSE table @@ (Join(l) :> {})

\* the table after lines 56-57 have consulted it: `in` and `[]` only read
TableAfterLookup(table, l) == table

compute_stats_unrounded(t, l, table) ==
    LET words == Words(t, l)
        num_words == Len(words)
    IN  [language |-> l,
         words |-> num_words,
         stopword_ratio |-> StopwordRatio(words, table, l),
         avg_word_len |-> IF num_words > 0 THEN <<SumLen(words), num_words>> ELSE <<0, 1>>,
         alpha_ratio |-> <<AlphaCount(t), Max(Len(t), 1)>>]

compute_stats(t, l, table) ==
    LET words == Words(t, l)
        num_words == Len(words)
    IN  [language |-> l,
         words |-> num_words,
         stopword_ratio |-> StopwordRatio(words, table, l),
         avg_word_len |-> IF num_words > 0 THEN Round2(SumLen(words), num_words)
                          ELSE Round2(0, 1),
         alpha_ratio |-> Round2(AlphaCount(t), Max(Len(t), 1))]

-----------------------------------------------------------------------------
(* The rule chain, lines 68-88 *)

\* len(text.strip()) < 5
MinTrimmedLen == 5

\* stats["words"] < 3
ShortWords == 3

\* stats["alpha_ratio"] > 0.7
DenseAlpha == <<7, 10>>

\* stats["stopword_ratio"] < 0.05
ScarceStopwords == <<5, 100>>

\* stats["alpha_ratio"] < 0.5
LowAlpha == <<1, 2>>

TooShort(t) == Len(strip(t)) < MinTrimmedLen

Exempt(st) == st.words < ShortWords /\ Gt(st.alpha_ratio, DenseAlpha)

\* rule 3 guarded by the ratio's truth value, which a ratio of 0.0 lacks
ScarceTruthy(st) ==
    /\ st.stopword_ratio # NoRatio
    /\ st.stopword_ratio[1] # 0
    /\ Lt(st.stopword_ratio, ScarceStopwords)

Scarce(st) == st.stopword_ratio # NoRatio /\ Lt(st.stopword_ratio, ScarceStopwords)

Sparse(st) == Lt(st.alpha_ratio, LowAlpha)

\* the chain with the exemption tried before the length check
is_garbage_exempt_first(t, st) ==
    IF Exempt(st) THEN FALSE
    ELSE IF TooShort(t) THEN TRUE
    ELSE IF Scarce(st) THEN TRUE
    ELSE IF Sparse(st) THEN TRUE
    ELSE FALSE

\* the chain with the scarcity rule tried before the exemption
is_garbage_scarcity_first(t, st) ==
    IF TooShort(t) THEN TRUE
    ELSE IF Scarce(st) THEN TRUE
    ELSE IF Exempt(st) THEN FALSE
    ELSE IF Sparse(st) THEN TRUE
    ELSE FALSE

\* the chain with rule 4 consulted only where rule 3 has a ratio to look at
is_garbage_sparse_under_ratio(t, st) ==
    IF TooShort(t) THEN TRUE
    ELSE IF Exempt(st) THEN FALSE
    ELSE IF st.stopword_ratio # NoRatio THEN Scarce(st) \/ Sparse(st)
    ELSE FALSE

is_garbage(t, st) ==
    IF TooShort(t) THEN TRUE
    ELSE IF Exempt(st) THEN FALSE
    ELSE IF Scarce(st) THEN TRUE
    ELSE IF Sparse(st) THEN TRUE
    ELSE FALSE

-----------------------------------------------------------------------------
(* The LLM-backed stages: base_agent.py, document_coherence.py,
   plausibility_agent.py *)

\* A document is known by its shape: leading blanks, the length of what
\* strip() leaves, trailing blanks.
Docs == [lead : 0..1, core : 0..MaxDocLen, trail : 0..1]

DocLen(d) == d.lead + d.core + d.trail

\* document_text.strip()
StripDoc(d) == [lead |-> 0, core |-> d.core, trail |-> 0]

MinDocLen == 25

\* the pre-check on the untrimmed length
TooShortDocUntrimmed(d) == DocLen(d) = 0 \/ DocLen(d) < MinDocLen

\* not document_text or len(document_text.strip()) < 25
TooShortDoc(d) == DocLen(d) = 0 \/ DocLen(StripDoc(d)) < MinDocLen

DefaultThreshold == 7

\* thresholds a direct caller passes
Thresholds == {DefaultThreshold, DefaultThreshold + 1}

\* Python's None
PyNone == [kind |-> "None"]

\* no request made yet
Unsent == [kind |-> "unsent"]

\* JSON values are known by their kind: a verdict or a reason is "true",
\* "false", "null", "text" (a non-empty string) or "absent" (no such key)
Verdicts == {"true", "false", "null", "text", "absent"}

Reasons == {"text", "absent"}

Number(n) == [kind |-> "number", value |-> n]

NotANumber(k) == [kind |-> k, value |-> 0]

\* confidence scores on both sides of the thresholds
Scores == {1, 6, 7, 8, 10}

ConfidenceValues ==
    {Number(n) : n \in Scores} \cup {NotANumber(k) : k \in {"text", "null", "absent"}}

\* what the completion call can end in: an exception, empty content, content
\* that is not JSON, or JSON: null, a number, a list, an object
FailedReplies == {[kind |-> k] : k \in {"error", "empty", "undecodable", "null", "scalar", "list"}}

CoherencyReplies ==
    FailedReplies \cup
    [kind : {"object"}, is_garbage : Verdicts, reason : Reasons, confidence : ConfidenceValues]

PlausibilityReplies ==
    FailedReplies \cup
    [kind : {"object"}, is_plausible : Verdicts, reason : Reasons, confidence : ConfidenceValues]

\* _send_llm_request, lines 25-46: None for an exception, for empty content
\* and for undecodable content, json.loads(content) otherwise
send_llm_request(reply) ==
    IF reply.kind \in {"error", "empty", "undecodable", "null"} THEN PyNone ELSE reply

\* bool(v)
Truthy(v) == v \in {"true", "text"}

\* not v
Not(v) == IF Truthy(v) THEN "false" ELSE "true"

\* a comparison that lets every score through
ConfidentAlways(result, th) == TRUE

\* result["confidence"] >= confidence_threshold, on a number
Confident(result, th) == result.confidence.value >= th

ShortConfidence == 10

ErrorConfidence == 0

Returned(v) == [raised |-> FALSE, value |-> v]

\* an exception leaves the function
Raised == [raised |-> TRUE, value |-> PyNone]

\* verify_document, line 71
TooShortVerification ==
    [is_garbage |-> "true", reason |-> "too short", confidence |-> Number(ShortConfidence),
     passed_verification |-> "false"]

\* verify_document, line 90
FailedVerification ==
    [is_garbage |-> "true", reason |-> "no valid response",
     confidence |-> Number(ErrorConfidence), passed_verification |-> "false"]

\* verify_document, lines 82-92. A truthy number has no `in` (TypeError); a
\* confidence that is no number has no `>=` with an int (TypeError); a result
\* without reason has nothing to append to (KeyError).
verify_document_post(result, th) ==
    IF result.kind = "scalar" THEN Raised
    ELSE IF /\ result.kind = "object"
            /\ result.is_garbage # "absent"
            /\ result.confidence.kind # "absent"
    THEN IF result.confidence.kind # "number" THEN Raised
         ELSE IF Confident(result, th)
         THEN Returned([is_garbage |-> result.is_garbage, reason |-> result.reason,
                        confidence |-> result.confidence,
                        passed_verification |-> Not(result.is_garbage)])
         ELSE IF result.reason = "absent" THEN Raised
         ELSE Returned([is_garbage |-> result.is_garbage, reason |-> "text, low confidence",
                        confidence |-> result.confidence,
                        passed_verification |-> "false"])
    ELSE Returned(FailedVerification)

\* assess_plausibility, line 83
TooShortAssessment ==
    [is_plausible |-> "false", reason |-> "too short", confidence |-> Number(ShortConfidence),
     passed_assessment |-> "false"]

\* assess_plausibility, line 102
FailedAssessment ==
    [is_plausible |-> "false", reason |-> "no valid response",
     confidence |-> Number(ErrorConfidence), passed_assessment |-> "false"]

\* assess_plausibility, lines 93-104
assess_plausibility_post(result, th) ==
    IF result.kind = "scalar" THEN Raised
    ELSE IF /\ result.kind = "object"
            /\ result.is_plausible # "absent"
            /\ result.confidence.kind # "absent"
    THEN IF result.confidence.kind # "number" THEN Raised
         ELSE IF Confident(result, th)
         THEN Returned([is_plausible |-> result.is_plausible, reason |-> result.reason,
                        confidence |-> result.confidence,
                        passed_assessment |-> result.is_plausible])
         ELSE IF result.reason = "absent" THEN Raised
         ELSE Returned([is_plausible |-> "false", reason |-> "text, low confidence",
                        confidence |-> result.confidence,
                        passed_assessment |-> "false"])
    ELSE Returned(FailedAssessment)

Agents == {"coherency", "plausibility"}

-----------------------------------------------------------------------------
(* State *)

VARIABLES
    resource,    \* stopwords.json as the import finds it
    STOPWORDS,   \* the module-level table
    warned,      \* whether the warning of line 18 was printed
    pc,          \* where the program is
    op,          \* the function the caller invoked
    text,        \* its text argument
    lang,        \* sanity_check's local, compute_stats' argument
    stats,       \* sanity_check's local, is_garbage's argument
    ret,         \* <<value>> once the call returned, <<>> otherwise
    ran,         \* the functions entered during the call
    calls,       \* calls made so far
    tokenizer,   \* whether the tokenizers' resources load: unknown until used
    profile,     \* the detector's trained profile: <<>> until used
    seen         \* text -> what an earlier call on it returned

VARIABLES
    ppc,                   \* where the verification code is
    pop,                   \* the method the caller invoked
    agent,                 \* the stage at work
    document_text,         \* the document
    confidence_threshold,  \* the stage's threshold
    response,              \* stage -> what the model answered it
    coherency_result,      \* what verify_document returned
    plausibility_result,   \* what assess_plausibility returned
    final_decision,        \* what run returned
    requests,              \* requests sent to the model
    invoked                \* the stages invoked, in order

\* the state of the verification code
pvars == <<ppc, pop, agent, document_text, confidence_threshold, response,
           coherency_result, plausibility_result, final_decision, requests, invoked>>

\* the state of the heuristic scorer
svars == <<resource, STOPWORDS, warned, pc, op, text, lang, stats, ret, ran, calls,
           tokenizer, profile, seen>>

vars == <<svars, pvars>>

NoStats == [language |-> None]

NothingSeen == [t \in {} |-> <<>>]

\* stats records a caller may hand to is_garbage
StatsInputs ==
    [language : {en},
     words : {0, 2, 3},
     stopword_ratio : {NoRatio, <<0, 1>>, <<1, 21>>, <<1, 20>>, <<1, 1>>},
     avg_word_len : {<<100, 100>>},
     alpha_ratio : {<<0, 100>>, <<49, 100>>, <<50, 100>>, <<70, 100>>, <<71, 100>>,
                    <<100, 100>>}]

\* longer texts of one letter and blanks, for direct calls of compute_stats
\* and is_garbage
WordTexts == UNION {[1..n -> {"a", " "}] : n \in 0..MaxWordTextLen}

\* long texts for sanity_check: a word of letters, a blank, a run of digits
Letters(n) == [i \in 1..n |-> "a"]

Digits(n) == [i \in 1..n |-> "1"]

RunTexts == {Letters(n) \o <<" ">> \o Digits(m) : n \in 1..MaxRun, m \in 0..MaxRun}

\* the texts of the call-sequence specification, after the samples of
\* lines 105-113: prose, a single word, ideographs, digits, blanks
SampleTexts ==
    {<<"a", " ", "a", "a", " ", "a">>,
     <<"A", "a", "a", "a", "a">>,
     <<Han, Han, Han, Han, Han>>,
     <<"1", "1", " ", "1", "1">>,
     <<" ", " ">>}

Init ==
    /\ resource \in Resources
    /\ STOPWORDS = Unloaded
    /\ warned = FALSE
    /\ pc = "import"
    /\ op = "none"
    /\ text = <<>>
    /\ lang = None
    /\ stats = NoStats
    /\ ret = <<>>
    /\ ran = {}
    /\ calls = 0
    /\ tokenizer = "unknown"
    /\ profile = <<>>
    /\ seen = NothingSeen
    /\ ppc = "idle"
    /\ pop = "none"
    /\ agent = "none"
    /\ document_text = [lead |-> 0, core |-> 0, trail |-> 0]
    /\ confidence_threshold = DefaultThreshold
    /\ response = [a \in Agents |-> Unsent]
    /\ coherency_result = PyNone
    /\ plausibility_result = PyNone
    /\ final_decision = PyNone
    /\ requests = 0
    /\ invoked = <<>>

-----------------------------------------------------------------------------
(* Import: lines 13-33 *)

LoadStopwords ==
    /\ pc = "import"
    /\ LET r == LoadStopwordsResult(resource)
       IN  /\ STOPWORDS' = r.table
           /\ warned' = r.warned
           /\ pc' = IF r.ok THEN "ready" ELSE "import_failed"
    /\ UNCHANGED <<resource, op, text, lang, stats, ret, ran, calls, tokenizer,
                   profile, seen>>
    /\ UNCHANGED pvars

-----------------------------------------------------------------------------
(* Calls *)

\* the caller's frame of a new call
Enter(o, t, l, st, first) ==
    /\ op' = o
    /\ text' = t
    /\ lang' = l
    /\ stats' = st
    /\ ret' = <<>>
    /\ ran' = {o}
    /\ calls' = calls + 1
    /\ pc' = first
    /\ UNCHANGED <<resource, STOPWORDS, warned, tokenizer, profile>>
    /\ UNCHANGED pvars

CallSanityCheck ==
    /\ pc = "ready"
    /\ \E t \in Texts \cup RunTexts : Enter("sanity_check", t, None, NoStats, "detect")
    /\ UNCHANGED seen

CallComputeStats ==
    /\ pc = "ready"
    /\ \E t \in Texts \cup WordTexts, l \in LangCodes : Enter("compute_stats", t, l, NoStats, "compute")
    /\ UNCHANGED seen

CallIsGarbage ==
    /\ pc = "ready"
    /\ \E t \in WordTexts, st \in StatsInputs :
          Enter("is_garbage", t, st.language, st, "classify")
    /\ UNCHANGED seen

\* a scoring call in a sequence of them; the call before it is remembered
CallSample ==
    /\ pc \in {"ready", "returned", "raised"}
    /\ calls < MaxCalls
    /\ \E t \in SampleTexts : Enter("sanity_check", t, None, NoStats, "detect")
    /\ seen' = IF pc = "ready" \/ op # "sanity_check" THEN seen
               ELSE [t \in DOMAIN seen \cup {text} |-> IF t = text THEN ret ELSE seen[t]]

\* the languages and statistics of the direct calls in a sequence
SampleLangs == {en, so, zh_cn}

SampleStats ==
    {st \in StatsInputs : /\ st.words = 3
                          /\ st.stopword_ratio \in {NoRatio, <<1, 21>>}
                          /\ st.alpha_ratio \in {<<49, 100>>, <<50, 100>>}}

\* direct calls of the three helpers in a sequence of calls
CallSampleTokenize ==
    /\ pc \in {"ready", "returned", "raised"}
    /\ calls < MaxCalls
    /\ \E t \in SampleTexts, l \in SampleLangs :
          Enter("tokenize_text", t, l, NoStats, "tokenize")
    /\ UNCHANGED seen

CallSampleStats ==
    /\ pc \in {"ready", "returned", "raised"}
    /\ calls < MaxCalls
    /\ \E t \in SampleTexts, l \in SampleLangs :
          Enter("compute_stats", t, l, NoStats, "compute")
    /\ UNCHANGED seen

CallSampleGarbage ==
    /\ pc \in {"ready", "returned", "raised"}
    /\ calls < MaxCalls
    /\ \E t \in SampleTexts, st \in SampleStats :
          Enter("is_garbage", t, st.language, st, "classify")
    /\ UNCHANGED seen

\* tokenize_text called on its own, lines 35-44
Tokenize ==
    /\ pc = "tokenize"
    /\ \E tk \in (IF tokenizer = "unknown" THEN {"ok", "broken"} ELSE {tokenizer}) :
          /\ tokenizer' = tk
          /\ IF tk = "broken"
             THEN /\ pc' = "raised"
                  /\ ret' = ret
             ELSE /\ ret' = <<tokenize_text(text, lang)>>
                  /\ pc' = "returned"
    /\ ran' = ran \cup {"tokenize_text"}
    /\ UNCHANGED <<resource, STOPWORDS, warned, op, text, lang, stats, calls, profile,
                   seen>>
    /\ UNCHANGED pvars

\* sanity_check, lines 91-97
Detect ==
    /\ pc = "detect"
    /\ \E draw \in SeedDraws :
       \E prof \in (IF profile = <<>> THEN Profiles ELSE {profile[1]}) :
          LET d == detect(text, prof, draw)
              l == IF d.raised THEN None ELSE d.lang
          IN  /\ lang' = l
              /\ profile' = IF d.raised THEN profile ELSE <<prof>>
              /\ IF Falsy(l)
                 THEN /\ ret' = <<[garbage |-> TRUE, stats |-> [language |-> None]]>>
                      /\ pc' = "returned"
                 ELSE /\ ret' = ret
                      /\ pc' = "compute"
    /\ ran' = ran \cup {"detect"}
    /\ UNCHANGED <<resource, STOPWORDS, warned, op, text, stats, calls, tokenizer, seen>>
    /\ UNCHANGED pvars

\* compute_stats, lines 46-66 (line 99 of sanity_check); an exception of the
\* tokenizer is caught nowhere and leaves the call
ComputeStats ==
    /\ pc = "compute"
    /\ \E tk \in (IF tokenizer = "unknown" THEN {"ok", "broken"} ELSE {tokenizer}) :
          /\ tokenizer' = tk
          /\ IF tk = "broken"
             THEN /\ pc' = "raised"
                  /\ UNCHANGED <<STOPWORDS, stats, ret>>
             ELSE /\ stats' = compute_stats(text, lang, STOPWORDS)
                  /\ STOPWORDS' = TableAfterLookup(STOPWORDS, lang)
                  /\ ret' = IF op = "compute_stats" THEN <<stats'>> ELSE ret
                  /\ pc' = IF op = "compute_stats" THEN "returned" ELSE "classify"
    /\ ran' = ran \cup {"compute_stats", "tokenize_text"}
    /\ UNCHANGED <<resource, warned, op, text, lang, calls, profile, seen>>
    /\ UNCHANGED pvars

\* is_garbage, lines 68-88 (lines 100-101 of sanity_check)
Classify ==
    /\ pc = "classify"
    /\ LET garbage == is_garbage(text, stats)
       IN  ret' = IF op = "sanity_check" THEN <<[garbage |-> garbage, stats |-> stats]>>
                  ELSE <<garbage>>
    /\ pc' = "returned"
    /\ ran' = ran \cup {"is_garbage"}
    /\ UNCHANGED <<resource, STOPWORDS, warned, op, text, lang, stats, calls, tokenizer,
                   profile, seen>>
    /\ UNCHANGED pvars

-----------------------------------------------------------------------------
(* The verification stages and the pipeline *)

\* where a stage hands its result: to run's gate, or to the direct caller
AfterStage ==
    IF pop = "run" THEN (IF agent = "coherency" THEN "coherency_gate" ELSE "plausibility_gate")
    ELSE "done"

\* the stage's result reaches whoever asked for it
Deliver(v) ==
    /\ coherency_result' = IF agent = "coherency" THEN v ELSE coherency_result
    /\ plausibility_result' = IF agent = "plausibility" THEN v ELSE plausibility_result
    /\ ppc' = AfterStage

\* a direct call of DocAnalyst.verify_document
CallVerifyDocument ==
    /\ ppc = "idle"
    /\ \E d \in Docs, th \in Thresholds :
          /\ document_text' = d
          /\ confidence_threshold' = th
    /\ pop' = "verify_document"
    /\ agent' = "coherency"
    /\ invoked' = Append(invoked, "coherency")
    /\ ppc' = "precheck"
    /\ UNCHANGED <<response, coherency_result, plausibility_result, final_decision, requests>>
    /\ UNCHANGED svars

\* a direct call of PlausibilityAgent.assess_plausibility
CallAssessPlausibility ==
    /\ ppc = "idle"
    /\ \E d \in Docs, th \in Thresholds :
          /\ document_text' = d
          /\ confidence_threshold' = th
    /\ pop' = "assess_plausibility"
    /\ agent' = "plausibility"
    /\ invoked' = Append(invoked, "plausibility")
    /\ ppc' = "precheck"
    /\ UNCHANGED <<response, coherency_result, plausibility_result, final_decision, requests>>
    /\ UNCHANGED svars

\* VerificationPipeline.run, lines 28-44: stage 1 with the default threshold
Run ==
    /\ ppc = "idle"
    /\ \E d \in Docs : document_text' = d
    /\ confidence_threshold' = DefaultThreshold
    /\ pop' = "run"
    /\ agent' = "coherency"
    /\ invoked' = Append(invoked, "coherency")
    /\ ppc' = "precheck"
    /\ UNCHANGED <<response, coherency_result, plausibility_result, final_decision, requests>>
    /\ UNCHANGED svars

\* the pre-check of a stage: document_coherence.py 70-71, plausibility_agent.py
\* 82-83
PreCheck ==
    /\ ppc = "precheck"
    /\ IF TooShortDoc(document_text)
       THEN Deliver(IF agent = "coherency" THEN TooShortVerification ELSE TooShortAssessment)
       ELSE /\ ppc' = "request"
            /\ UNCHANGED <<coherency_result, plausibility_result>>
    /\ UNCHANGED <<pop, agent, document_text, confidence_threshold, response, final_decision,
                   requests, invoked>>
    /\ UNCHANGED svars

\* the request to the model and what comes back: base_agent.py 25-46
SendLlmRequest ==
    /\ ppc = "request"
    /\ \E reply \in (IF agent = "coherency" THEN CoherencyReplies ELSE PlausibilityReplies) :
          response' = [response EXCEPT ![agent] = reply]
    /\ requests' = requests + 1
    /\ ppc' = "post"
    /\ UNCHANGED <<pop, agent, document_text, confidence_threshold, coherency_result,
                   plausibility_result, final_decision, invoked>>
    /\ UNCHANGED svars

\* the post-processing of a stage: document_coherence.py 82-92,
\* plausibility_agent.py 93-104; an exception leaves the stage and, in run,
\* the pipeline
PostProcess ==
    /\ ppc = "post"
    /\ LET result == send_llm_request(response[agent])
           out == IF agent = "coherency"
                  THEN verify_document_post(result, confidence_threshold)
                  ELSE assess_plausibility_post(result, confidence_threshold)
       IN  IF out.raised
           THEN /\ ppc' = "raised"
                /\ UNCHANGED <<coherency_result, plausibility_result>>
           ELSE Deliver(out.value)
    /\ UNCHANGED <<pop, agent, document_text, confidence_threshold, response, final_decision,
                   requests, invoked>>
    /\ UNCHANGED svars

\* run, lines 47-63: reject on a failed stage 1, else stage 2
CoherencyGate ==
    /\ ppc = "coherency_gate"
    /\ IF ~Truthy(coherency_result.passed_verification)
       THEN /\ final_decision' = [final_verdict |-> "REJECTED",
                                  reason |-> "Failed coherency check",
                                  coherency_analysis |-> coherency_result,
                                  plausibility_analysis |-> PyNone]
            /\ ppc' = "done"
            /\ UNCHANGED <<agent, invoked>>
       ELSE /\ agent' = "plausibility"
            /\ invoked' = Append(invoked, "plausibility")
            /\ ppc' = "precheck"
            /\ UNCHANGED final_decision
    /\ UNCHANGED <<pop, document_text, confidence_threshold, response, coherency_result,
                   plausibility_result, requests>>
    /\ UNCHANGED svars

\* run, lines 66-92: reject on a failed stage 2, else accept
PlausibilityGate ==
    /\ ppc = "plausibility_gate"
    /\ final_decision' =
          IF ~Truthy(plausibility_result.passed_assessment)
          THEN [final_verdict |-> "REJECTED",
                reason |-> "Failed plausibility check",
                coherency_analysis |-> coherency_result,
                plausibility_analysis |-> plausibility_result]
          ELSE [final_verdict |-> "ACCEPTED",
                reason |-> "Document passed both checks",
                coherency_analysis |-> coherency_result,
                plausibility_analysis |-> plausibility_result]
    /\ ppc' = "done"
    /\ UNCHANGED <<pop, agent, document_text, confidence_threshold, response,
                   coherency_result, plausibility_result, requests, invoked>>
    /\ UNCHANGED svars

-----------------------------------------------------------------------------
(* Specifications *)

\* one call of any of the module's functions on any input
Next ==
    \/ LoadStopwords
    \/ CallSanityCheck
    \/ CallComputeStats
    \/ CallIsGarbage
    \/ Detect
    \/ ComputeStats
    \/ Classify

Spec == Init /\ [][Next]_vars

\* a sequence of scoring calls
NextCalls ==
    \/ LoadStopwords
    \/ CallSample
    \/ Detect
    \/ ComputeStats
    \/ Classify

SpecCalls == Init /\ [][NextCalls]_vars

\* a sequence of calls of any of the four functions
NextAnyCalls ==
    \/ LoadStopwords
    \/ CallSample
    \/ CallSampleTokenize
    \/ CallSampleStats
    \/ CallSampleGarbage
    \/ Detect
    \/ Tokenize
    \/ ComputeStats
    \/ Classify

SpecAnyCalls == Init /\ [][NextAnyCalls]_vars

\* one call of a verification stage or of the pipeline on any document,
\* the model answering as it may
NextPipeline ==
    \/ CallVerifyDocument
    \/ CallAssessPlausibility
    \/ Run
    \/ PreCheck
    \/ SendLlmRequest
    \/ PostProcess
    \/ CoherencyGate
    \/ PlausibilityGate

SpecPipeline == Init /\ [][NextPipeline]_vars

-----------------------------------------------------------------------------
(* What the properties below read off a state *)

\* a call that ran the classifier and returned
Judged == pc = "returned" /\ op \in {"sanity_check", "is_garbage"} /\ "is_garbage" \in ran

\* the garbage flag it returned
Verdict == IF op = "sanity_check" THEN ret[1].garbage ELSE ret[1]

\* compute_stats has produced the record held in stats
HasStats == "compute_stats" \in ran /\ pc \in {"classify", "returned"}

TrimmedLen == Len(strip(text))

Hundredth(x) == (100 * x[1]) % x[2] = 0

-----------------------------------------------------------------------------
(* C1..C10 *)

\* C1: whenever sanity_check returns on a text whose trimmed length is under
\* 5, the verdict is garbage = true, whether detection failed or reported a
\* language and whatever statistics were computed.
C1_ShortTextIsGarbage ==
    (pc = "returned" /\ op = "sanity_check" /\ TrimmedLen < 5) => ret[1].garbage = TRUE

\* a short all-letter word in a detected language went through the classifier
C1_Witness ==
    /\ Judged /\ op = "sanity_check"
    /\ TrimmedLen < 5 /\ TrimmedLen > 0
    /\ stats.words = 1 /\ stats.alpha_ratio = <<100, 100>>
    /\ ret[1].garbage = TRUE

\* C2: once detection has failed (the detector raised, or answered an empty
\* code) sanity_check has returned garbage = true with stats.language = null
\* and has entered none of tokenize_text, compute_stats and is_garbage.
C2_DetectionFailure ==
    (op = "sanity_check" /\ "detect" \in ran /\ (lang = None \/ lang = EmptyCode))
        => /\ pc = "returned"
           /\ ret = <<[garbage |-> TRUE, stats |-> [language |-> None]]>>
           /\ ran \cap {"tokenize_text", "compute_stats", "is_garbage"} = {}

\* the detector answered an empty code for a text long enough to be scored
C2_Witness ==
    /\ pc = "returned" /\ op = "sanity_check"
    /\ lang = EmptyCode /\ TrimmedLen >= 5
    /\ ret[1].garbage = TRUE

\* C3 as stated: for a text with a detected language, words < 3 and
\* alpha_ratio > 0.7 give garbage = false.
C3_ExemptionAlways ==
    (Judged /\ op = "sanity_check" /\ stats.words < 3 /\ Gt(stats.alpha_ratio, <<7, 10>>)) => Verdict = FALSE

\* C3 amended: for a text of trimmed length >= 5, words < 3 and
\* alpha_ratio > 0.7 give garbage = false, also when the stopword ratio is
\* defined and below 0.05.
C3_ExemptionAfterLength ==
    (Judged /\ TrimmedLen >= 5 /\ stats.words < 3 /\ Gt(stats.alpha_ratio, <<7, 10>>))
        => Verdict = FALSE

\* sanity_check exempted a text whose stopword ratio is defined and zero
C3_Witness ==
    /\ Judged /\ op = "sanity_check"
    /\ TrimmedLen >= 5 /\ stats.words < 3 /\ Gt(stats.alpha_ratio, <<7, 10>>)
    /\ stats.stopword_ratio # NoRatio /\ stats.stopword_ratio[1] = 0
    /\ Verdict = FALSE

\* the statistics say that fewer than 5% of at least one word are stopwords
FewStopwords ==
    /\ stats.words > 0
    /\ stats.stopword_ratio # NoRatio
    /\ 100 * stats.stopword_ratio[1] < 5 * stats.stopword_ratio[2]

\* C4 as stated: for a text whose detected language has a stopword entry,
\* num_words > 0 and a stopword ratio below 0.05 give garbage = true.
C4_ScarcityAlways ==
    (Judged /\ op = "sanity_check" /\ HasEntry(STOPWORDS, lang) /\ FewStopwords)
        => Verdict = TRUE

\* C4 amended: a stopword entry, num_words > 0 and a stopword ratio below
\* 0.05 give garbage = true unless the short-but-dense exemption applies
\* (trimmed length >= 5, words < 3 and alpha_ratio > 0.7).
C4_ScarcityUnlessExempt ==
    (/\ Judged
     /\ FewStopwords
     /\ ~(TrimmedLen >= 5 /\ stats.words < 3 /\ Gt(stats.alpha_ratio, <<7, 10>>)))
        => Verdict = TRUE

\* sanity_check rejected a text for its lack of stopwords alone: it is long
\* enough, not exempt, and has letters enough to pass rule 4
C4_Witness ==
    /\ Judged /\ op = "sanity_check"
    /\ TrimmedLen >= 5
    /\ FewStopwords
    /\ ~Lt(stats.alpha_ratio, <<1, 2>>)
    /\ Verdict = TRUE

\* C5: sanity_check never raises to its caller.
C5_NeverRaises == op = "sanity_check" => pc # "raised"

\* C6: a call of sanity_check ends as every earlier call on the same text
\* ended: the same verdict and the same stats.
C6_Idempotent ==
    (pc \in {"returned", "raised"} /\ text \in DOMAIN seen) => ret = seen[text]

\* the third call repeats the text of an earlier one and scores it
C6_Witness ==
    /\ pc = "returned" /\ calls = 3
    /\ text \in DOMAIN seen
    /\ "is_garbage" \in ran
    /\ ret[1].garbage = FALSE

\* C7: in every record of compute_stats alpha_ratio is a multiple of 0.01 in
\* [0,1] and avg_word_len a multiple of 0.01 that is >= 0; avg_word_len is 0
\* without alphabetic tokens and alpha_ratio is 0 for the empty text.
C7_RoundedStats ==
    HasStats =>
        /\ Hundredth(stats.alpha_ratio)
        /\ 0 <= stats.alpha_ratio[1] /\ stats.alpha_ratio[1] <= stats.alpha_ratio[2]
        /\ Hundredth(stats.avg_word_len)
        /\ stats.avg_word_len[1] >= 0 /\ stats.avg_word_len[2] > 0
        /\ (stats.words = 0 => stats.avg_word_len[1] = 0)
        /\ (text = <<>> => stats.alpha_ratio[1] = 0)

\* statistics of a text whose exact ratios are not multiples of 0.01
C7_Witness ==
    /\ HasStats
    /\ stats.alpha_ratio = <<67, 100>>
    /\ stats.words = 3
    /\ stats.avg_word_len = <<133, 100>>

\* the fraction of the words whose lower-case form is in the language's set
CaseFoldedFraction ==
    LET ws == Words(text, lang)
    IN  <<Cardinality({i \in 1..Len(ws) : Join(Lower(ws[i])) \in STOPWORDS[Join(lang)]}),
          Len(ws)>>

\* C8: stopword_ratio is undefined exactly when the language has no entry in
\* the table or num_words = 0, and otherwise is the fraction of case-folded
\* words in the language's set, in [0,1]; with an undefined ratio the verdict
\* is the one of rules 1, 2 and 4.
C8_UndefinedRatio ==
    /\ HasStats =>
          /\ (stats.stopword_ratio = NoRatio)
                <=> (Join(lang) \notin DOMAIN STOPWORDS \/ stats.words = 0)
          /\ stats.stopword_ratio # NoRatio =>
                /\ stats.stopword_ratio = CaseFoldedFraction
                /\ stats.stopword_ratio[1] <= stats.stopword_ratio[2]
    /\ (Judged /\ stats.stopword_ratio = NoRatio) =>
          Verdict = (\/ TrimmedLen < 5
                     \/ /\ ~(stats.words < 3 /\ Gt(stats.alpha_ratio, <<7, 10>>))
                        /\ Lt(stats.alpha_ratio, <<1, 2>>))

\* sanity_check accepted a text of three words in a language without an entry
C8_Witness ==
    /\ Judged /\ op = "sanity_check"
    /\ Join(lang) \notin DOMAIN STOPWORDS
    /\ stats.words >= 3 /\ TrimmedLen >= 5
    /\ stats.stopword_ratio = NoRatio
    /\ Verdict = FALSE

\* C9: for a Chinese code (prefix zh) and num_words > 0 the stopword ratio is
\* defined and computed from the table's Chinese set.
C9_ChineseStopwords ==
    (/\ HasStats
     /\ StartsWith(lang, zh)
     /\ "zh" \in DOMAIN STOPWORDS
     /\ stats.words > 0)
        => LET ws == Words(text, lang)
           IN  stats.stopword_ratio =
                  <<Cardinality({i \in 1..Len(ws) : Join(Lower(ws[i])) \in STOPWORDS["zh"]}),
                    Len(ws)>>

\* the ten languages of the built-in table
DefaultLanguages == {"en", "es", "fr", "de", "zh", "ar", "ru", "hi", "pt", "it"}

\* C10: with the resource absent the import does not fail, the table is the
\* built-in default with entries for the ten languages and the warning was
\* printed; with the resource present the table is its content; the table
\* stays the one of these the import chose.
C10_TableInitialised ==
    /\ resource = "absent" =>
          /\ pc # "import_failed"
          /\ pc # "import" =>
                /\ STOPWORDS = BuiltinTable
                /\ DOMAIN STOPWORDS = DefaultLanguages
                /\ warned
    /\ (resource = "present" /\ pc # "import") =>
          /\ pc # "import_failed"
          /\ STOPWORDS = ResourceContent
          /\ ~warned

\* a text was scored against the built-in table after the warning
C10_Witness ==
    /\ resource = "absent" /\ warned
    /\ Judged /\ op = "sanity_check"
    /\ STOPWORDS = BuiltinTable
    /\ stats.stopword_ratio # NoRatio

-----------------------------------------------------------------------------
\* C11: once the import is over, no step of any call of tokenize_text,
\* compute_stats, is_garbage or sanity_check, whatever its outcome, changes
\* the stopword table, and no step of a call changes the text it was given
C11_TableAndTextKept ==
    [][/\ pc # "import" => STOPWORDS' = STOPWORDS
       /\ pc \in {"detect", "tokenize", "compute", "classify"} => text' = text]_vars

\* the third call of a sequence has ended, by a verdict on a failed detection,
\* and the table is the built-in one the import installed
C11_Witness ==
    /\ calls = MaxCalls
    /\ pc = "returned"
    /\ op = "sanity_check"
    /\ Falsy(lang)
    /\ resource = "absent"
    /\ STOPWORDS = BuiltinTable
    /\ text \in SampleTexts

-----------------------------------------------------------------------------
\* C14: the verdict of is_garbage is that of the ordered chain: true when the
\* trimmed length is under 5; else false when words < 3 and alpha_ratio > 0.7;
\* else true exactly when the stopword ratio is defined and under 0.05, or
\* alpha_ratio is under 0.5
C14_FirstMatchChain ==
    Judged =>
        LET rule1 == TrimmedLen < 5
            rule2 == stats.words < 3 /\ Gt(stats.alpha_ratio, <<7, 10>>)
            rule3 == stats.stopword_ratio # NoRatio /\ Lt(stats.stopword_ratio, <<5, 100>>)
            rule4 == Lt(stats.alpha_ratio, <<1, 2>>)
        IN  /\ rule1 => Verdict = TRUE
            /\ (~rule1 /\ rule2) => Verdict = FALSE
            /\ (~rule1 /\ ~rule2) => (Verdict = TRUE <=> (rule3 \/ rule4))

\* sanity_check rejected a text of five characters or more on rule 4 alone:
\* its language has no stopword entry, so rule 3 had nothing to say
C14_Witness ==
    /\ Judged
    /\ op = "sanity_check"
    /\ TrimmedLen >= 5
    /\ stats.stopword_ratio = NoRatio
    /\ Lt(stats.alpha_ratio, <<1, 2>>)
    /\ Verdict = TRUE

-----------------------------------------------------------------------------
\* the exact fraction of alphabetic characters of the text
ExactAlpha == <<AlphaCount(text), Max(Len(text), 1)>>

\* rules 1 to 3 leave the text to rule 4
LeftToRule4 == TrimmedLen >= 5 /\ ~Exempt(stats) /\ ~Scarce(stats)

\* C17 as stated: the rounded alpha_ratio compares with 0.7 and with 0.5 as the
\* exact fraction does, and a text under one half of letters that rules 1 to 3
\* leave undecided is garbage
C17_RoundedAsExact ==
    (HasStats /\ op = "sanity_check") =>
        /\ Gt(stats.alpha_ratio, <<7, 10>>) <=> Gt(ExactAlpha, <<7, 10>>)
        /\ Lt(stats.alpha_ratio, <<1, 2>>) <=> Lt(ExactAlpha, <<1, 2>>)
        /\ (Judged /\ LeftToRule4 /\ Lt(ExactAlpha, <<1, 2>>)) => Verdict = TRUE

\* C17, amended: the rounded alpha_ratio is above 0.7 whenever the exact
\* fraction is above 0.705 and never when it is at most 0.7; it is below 0.5
\* whenever the exact fraction is below 0.495 and never when it is at least
\* 0.5; a text under 0.495 of letters that rules 1 to 3 leave undecided is
\* garbage
C17_RoundedDecides ==
    HasStats =>
        /\ Gt(ExactAlpha, <<141, 200>>) => Gt(stats.alpha_ratio, <<7, 10>>)
        /\ ~Gt(ExactAlpha, <<7, 10>>) => ~Gt(stats.alpha_ratio, <<7, 10>>)
        /\ Lt(ExactAlpha, <<99, 200>>) => Lt(stats.alpha_ratio, <<1, 2>>)
        /\ ~Lt(ExactAlpha, <<1, 2>>) => ~Lt(stats.alpha_ratio, <<1, 2>>)
        /\ (Judged /\ LeftToRule4 /\ Lt(ExactAlpha, <<99, 200>>)) => Verdict = TRUE

\* sanity_check rejected on rule 4 a text whose fraction of letters is not a
\* whole number of hundredths: it lies under 0.495 and was rounded to 0.49
C17_Witness ==
    /\ Judged
    /\ op = "sanity_check"
    /\ LeftToRule4
    /\ ~Hundredth(ExactAlpha)
    /\ Lt(ExactAlpha, <<99, 200>>)
    /\ stats.alpha_ratio = <<49, 100>>
    /\ Verdict = TRUE

-----------------------------------------------------------------------------
(* What the properties of the verification stages read off a state *)

\* the stage has handed over a result
VerifyReturned == coherency_result # PyNone

AssessReturned == plausibility_result # PyNone

\* the model answered the stage an object holding a numeric confidence
Scored(a) == response[a].kind = "object" /\ response[a].confidence.kind = "number"

\* run has returned
Decided == pop = "run" /\ ppc = "done"

Malformed(a) ==
    \/ response[a].kind \in {"error", "empty", "undecodable"}
    \/ /\ response[a].kind = "object"
       /\ \/ (IF a = "coherency" THEN response[a].is_garbage ELSE response[a].is_plausible)
                = "absent"
          \/ response[a].confidence.kind # "number"
          \/ response[a].reason = "absent"

\* the stage is through with the answer it got
Processed(a) == response[a] # Unsent /\ ~(agent = a /\ ppc = "post")

\* C13: on a missing or malformed answer the stage does not raise and returns
\* the error verdict: confidence 0, not passed
C13_MalformedIsErrorVerdict ==
    /\ (Processed("coherency") /\ Malformed("coherency")) =>
          /\ VerifyReturned
          /\ coherency_result.confidence = Number(0)
          /\ coherency_result.passed_verification = "false"
    /\ (Processed("plausibility") /\ Malformed("plausibility")) =>
          /\ AssessReturned
          /\ plausibility_result.confidence = Number(0)
          /\ plausibility_result.passed_assessment = "false"

\* C15: in run the plausibility stage is invoked only once the coherency stage
\* has returned a pass; run returns a decision, never an exception; the
\* decision is ACCEPTED exactly when both stages passed and REJECTED
\* otherwise, with no plausibility analysis when the first stage failed
C15_RunGatesAndDecides ==
    pop = "run" =>
        /\ invoked \in {<<"coherency">>, <<"coherency", "plausibility">>}
        /\ Len(invoked) = 2 =>
              VerifyReturned /\ Truthy(coherency_result.passed_verification)
        /\ (VerifyReturned /\ ~Truthy(coherency_result.passed_verification)) =>
              (Len(invoked) = 1 /\ plausibility_result = PyNone)
        /\ ppc # "raised"
        /\ ppc = "done" =>
              /\ final_decision.final_verdict \in {"ACCEPTED", "REJECTED"}
              /\ final_decision.final_verdict = "ACCEPTED" <=>
                    /\ Truthy(coherency_result.passed_verification)
                    /\ AssessReturned
                    /\ Truthy(plausibility_result.passed_assessment)
              /\ ~Truthy(coherency_result.passed_verification) =>
                    final_decision.plausibility_analysis = PyNone

\* the document is empty or its trimmed length is under 25
ShortDocument == DocLen(document_text) = 0 \/ document_text.core < 25

\* C16: on an empty document or one of trimmed length under 25 no request is
\* sent to the model, a stage returns not passed with confidence 10, and run
\* rejects without invoking the plausibility stage
C16_ShortDocumentNoRequest ==
    ShortDocument =>
        /\ requests = 0
        /\ ppc \notin {"request", "post", "raised"}
        /\ VerifyReturned =>
              /\ coherency_result.confidence = Number(10)
              /\ coherency_result.passed_verification = "false"
        /\ AssessReturned =>
              /\ plausibility_result.confidence = Number(10)
              /\ plausibility_result.passed_assessment = "false"
        /\ pop = "run" => invoked = <<"coherency">>
        /\ Decided =>
              /\ final_decision.final_verdict = "REJECTED"
              /\ final_decision.plausibility_analysis = PyNone

\* run rejected a document of 24 characters behind a leading blank, 25 in all,
\* without a request
C16_Witness ==
    /\ Decided
    /\ document_text.core = 24
    /\ document_text.lead = 1
    /\ final_decision.final_verdict = "REJECTED"
    /\ requests = 0

====
